---- MODULE Spec2Model ----
(***************************************************************************)
(* Ultimate Tic-Tac-Toe: the bit-packed Board (uttt-rs/src/state.rs) and   *)
(* the MCTS engine (uttt-rs/src/engine.rs), as a state machine.            *)
(*                                                                         *)
(* A Board is advanced by advance_state from Board::new().  The moves fed  *)
(* to it come from recorded games (RecordedGames) and from arbitrary       *)
(* (major, minor) pairs, in and out of range, tried at most MaxDev times   *)
(* off a recorded game.                                                    *)
(***************************************************************************)
EXTENDS Integers, Sequences, FiniteSets, TLC

\* ----------------------------------------------------------------- bounds
\* Successful moves played off the recorded game.
MaxDev == 1
\* Largest index a caller passes in a Move (9 is out of range).
MaxIndex == 9
\* The engine is initialized on Boards with at most this many empty cells in
\* unsettled sub-boards (so a rollout plays at most this many plies).
MaxOpenCells == 2
\* Rollouts one engine runs in its lifetime.
MaxIters == 5
\* Nodes ever allocated in the engine's arena.
MaxNodes == 5
\* initialize calls on one engine.
MaxInits == 2

\* --------------------------------------------------------------- u16 bits
RECURSIVE BitAnd(_, _)
\* a & b
BitAnd(a, b) ==
    IF a = 0 \/ b = 0 THEN 0
    ELSE (a % 2) * (b % 2) + 2 * BitAnd(a \div 2, b \div 2)

RECURSIVE BitOr(_, _)
\* a | b
BitOr(a, b) ==
    IF a = 0 THEN b
    ELSE IF b = 0 THEN a
    ELSE (IF a % 2 = 1 \/ b % 2 = 1 THEN 1 ELSE 0) + 2 * BitOr(a \div 2, b \div 2)

\* 1 << i
Shl(i) == 2 ^ i

\* 0b111111111
FULL == 511

\* ------------------------------------------------------------------ state.rs
\* WIN_CONFIGURATIONS: the 8 three-in-a-row patterns.
WIN_CONFIGURATIONS == <<448, 56, 7, 292, 146, 73, 273, 84>>

\* BitBoard::has_winner
has_winner(bits) ==
    IF \E k \in 1..Len(WIN_CONFIGURATIONS) :
           BitAnd(bits, WIN_CONFIGURATIONS[k]) = WIN_CONFIGURATIONS[k]
    THEN "Yes"
    ELSE IF bits = FULL THEN "Tie"
    ELSE "InProgress"

\* BitBoard::advance_bitfield_state
advance_bitfield_state(bits, pos) == BitOr(bits, Shl(pos))

\* Move { major, minor }
Move(major, minor) == [major |-> major, minor |-> minor]

\* Board::default
NewBoard ==
    [ sub_wins       |-> [x |-> 0, o |-> 0, tie |-> 0],
      board          |-> [i \in 0..8 |-> [x |-> 0, o |-> 0]],
      player_to_move |-> "X",
      next_sub_board |-> 9 ]

\* Option<Board>
None == [some |-> FALSE]
Some(b) == [some |-> TRUE, val |-> b]

\* update_sub_wins with `if` in place of `else if`: a win that fills the
\* sub-board is recorded as a tie as well.
update_sub_wins_NoElse(sub_wins, sub_board, player, major) ==
    LET won == IF player = "X"
               THEN IF has_winner(sub_board.x) = "Yes"
                    THEN [sub_wins EXCEPT !.x = BitOr(@, Shl(major))]
                    ELSE sub_wins
               ELSE IF has_winner(sub_board.o) = "Yes"
                    THEN [sub_wins EXCEPT !.o = BitOr(@, Shl(major))]
                    ELSE sub_wins
    IN  IF BitOr(sub_board.x, sub_board.o) = FULL
        THEN [won EXCEPT !.tie = BitOr(@, Shl(major))]
        ELSE won

\* update_sub_wins with `=` in place of `|=`: the new bit replaces the field.
update_sub_wins_Assign(sub_wins, sub_board, player, major) ==
    IF player = "X"
    THEN IF has_winner(sub_board.x) = "Yes"
         THEN [sub_wins EXCEPT !.x = Shl(major)]
         ELSE IF BitOr(sub_board.x, sub_board.o) = FULL
              THEN [sub_wins EXCEPT !.tie = Shl(major)]
              ELSE sub_wins
    ELSE IF has_winner(sub_board.o) = "Yes"
         THEN [sub_wins EXCEPT !.o = Shl(major)]
         ELSE IF BitOr(sub_board.x, sub_board.o) = FULL
              THEN [sub_wins EXCEPT !.tie = Shl(major)]
              ELSE sub_wins

\* update_sub_wins with the two tests exchanged: a full sub-board is recorded
\* as tied before the mover's line is looked for.
update_sub_wins_TieFirst(sub_wins, sub_board, player, major) ==
    IF BitOr(sub_board.x, sub_board.o) = FULL
    THEN [sub_wins EXCEPT !.tie = BitOr(@, Shl(major))]
    ELSE IF player = "X"
    THEN IF has_winner(sub_board.x) = "Yes"
         THEN [sub_wins EXCEPT !.x = BitOr(@, Shl(major))]
         ELSE sub_wins
    ELSE IF has_winner(sub_board.o) = "Yes"
         THEN [sub_wins EXCEPT !.o = BitOr(@, Shl(major))]
         ELSE sub_wins

\* The sub_wins update of advance_state_unsafe: only sub-board m.major and
\* only the mover's bitfield are recomputed.
update_sub_wins(sub_wins, sub_board, player, major) ==
    IF player = "X"
    THEN IF has_winner(sub_board.x) = "Yes"
         THEN [sub_wins EXCEPT !.x = BitOr(@, Shl(major))]
         ELSE IF BitOr(sub_board.x, sub_board.o) = FULL
              THEN [sub_wins EXCEPT !.tie = BitOr(@, Shl(major))]
              ELSE sub_wins
    ELSE IF has_winner(sub_board.o) = "Yes"
         THEN [sub_wins EXCEPT !.o = BitOr(@, Shl(major))]
         ELSE IF BitOr(sub_board.x, sub_board.o) = FULL
              THEN [sub_wins EXCEPT !.tie = BitOr(@, Shl(major))]
              ELSE sub_wins

\* update_next_sub_board without the reset to 9: the next sub-board is
\* always the minor index of the move.
update_next_sub_board_NoReset(sub_wins, minor) == minor

\* update_next_sub_board that reads the won sub-boards only, not the tied.
update_next_sub_board_IgnoresTie(sub_wins, minor) ==
    LET sub_wins_or == BitOr(sub_wins.o, sub_wins.x)
    IN  IF BitAnd(sub_wins_or, Shl(minor)) # 0 THEN 9 ELSE minor

\* The next_sub_board update of advance_state_unsafe, from the sub_wins
\* as already updated by this move.
update_next_sub_board(sub_wins, minor) ==
    LET sub_wins_or == BitOr(BitOr(sub_wins.o, sub_wins.x), sub_wins.tie)
    IN  IF BitAnd(sub_wins_or, Shl(minor)) # 0 THEN 9 ELSE minor

\* advance_state_unsafe with next_sub_board computed from the sub_wins of
\* before the move.
advance_state_unsafe_StaleWins(self, m) ==
    LET old == self.board[m.major]
        sub_board ==
            IF self.player_to_move = "X"
            THEN [old EXCEPT !.x = advance_bitfield_state(old.x, m.minor)]
            ELSE [old EXCEPT !.o = advance_bitfield_state(old.o, m.minor)]
    IN  [ sub_wins       |-> update_sub_wins(self.sub_wins, sub_board,
                                             self.player_to_move, m.major),
          board          |-> [self.board EXCEPT ![m.major] = sub_board],
          player_to_move |-> IF self.player_to_move = "X" THEN "O" ELSE "X",
          next_sub_board |-> update_next_sub_board(self.sub_wins, m.minor) ]

\* Board::advance_state_unsafe (m.major and m.minor in 0..8).
advance_state_unsafe(self, m) ==
    LET old == self.board[m.major]
        sub_board ==
            IF self.player_to_move = "X"
            THEN [old EXCEPT !.x = advance_bitfield_state(old.x, m.minor)]
            ELSE [old EXCEPT !.o = advance_bitfield_state(old.o, m.minor)]
        sub_wins ==
            update_sub_wins(self.sub_wins, sub_board, self.player_to_move, m.major)
    IN  [ sub_wins       |-> sub_wins,
          board          |-> [self.board EXCEPT ![m.major] = sub_board],
          player_to_move |-> IF self.player_to_move = "X" THEN "O" ELSE "X",
          next_sub_board |-> update_next_sub_board(sub_wins, m.minor) ]

\* advance_state without the check that the sub-board is not already won.
advance_state_NoSettledCheck(self, m) ==
    IF m.major > 8 \/ m.minor > 8 THEN None
    ELSE IF \/ BitAnd(self.board[m.major].x, Shl(m.minor)) # 0
            \/ BitAnd(self.board[m.major].o, Shl(m.minor)) # 0 THEN None
    ELSE IF self.next_sub_board # 9 /\ self.next_sub_board # m.major THEN None
    ELSE Some(advance_state_unsafe(self, m))

\* advance_state without the check of the forced sub-board.
advance_state_NoForcedCheck(self, m) ==
    IF m.major > 8 \/ m.minor > 8 THEN None
    ELSE IF \/ BitAnd(self.board[m.major].x, Shl(m.minor)) # 0
            \/ BitAnd(self.board[m.major].o, Shl(m.minor)) # 0 THEN None
    ELSE IF \/ BitAnd(self.sub_wins.x, Shl(m.major)) # 0
            \/ BitAnd(self.sub_wins.o, Shl(m.major)) # 0 THEN None
    ELSE Some(advance_state_unsafe(self, m))

\* advance_state without the check that the cell is open.
advance_state_NoOccupiedCheck(self, m) ==
    IF m.major > 8 \/ m.minor > 8 THEN None
    ELSE IF self.next_sub_board # 9 /\ self.next_sub_board # m.major THEN None
    ELSE IF \/ BitAnd(self.sub_wins.x, Shl(m.major)) # 0
            \/ BitAnd(self.sub_wins.o, Shl(m.major)) # 0 THEN None
    ELSE Some(advance_state_unsafe(self, m))

\* Board::advance_state
advance_state(self, m) ==
    IF m.major > 8 \/ m.minor > 8 THEN None
    ELSE IF \/ BitAnd(self.board[m.major].x, Shl(m.minor)) # 0
            \/ BitAnd(self.board[m.major].o, Shl(m.minor)) # 0 THEN None
    ELSE IF self.next_sub_board # 9 /\ self.next_sub_board # m.major THEN None
    ELSE IF \/ BitAnd(self.sub_wins.x, Shl(m.major)) # 0
            \/ BitAnd(self.sub_wins.o, Shl(m.major)) # 0 THEN None
    ELSE Some(advance_state_unsafe(self, m))

\* sub_board_moves with the cell loop running from 8 down to 0.
sub_board_moves_Descending(self, major) ==
    LET sub_board == self.board[major]
        or == BitOr(sub_board.x, sub_board.o)
    IN  SelectSeq([k \in 1..9 |-> Move(major, 9 - k)],
                  LAMBDA mv : BitAnd(or, Shl(mv.minor)) = 0)

\* The inner loop of generate_moves_in_place: the empty cells of sub-board
\* `major`, in ascending order.
sub_board_moves(self, major) ==
    LET sub_board == self.board[major]
        or == BitOr(sub_board.x, sub_board.o)
    IN  SelectSeq([k \in 1..9 |-> Move(major, k - 1)],
                  LAMBDA mv : BitAnd(or, Shl(mv.minor)) = 0)

RECURSIVE open_moves_IgnoresWins(_, _)
\* open_moves without the test that skips settled sub-boards.
open_moves_IgnoresWins(self, major) ==
    IF major > 8 THEN <<>>
    ELSE sub_board_moves(self, major) \o open_moves_IgnoresWins(self, major + 1)

RECURSIVE open_moves(_, _)
\* The outer loop of the free-choice branch, from sub-board `major` on: the
\* moves of every sub-board with no sub_wins bit.
open_moves(self, major) ==
    IF major > 8 THEN <<>>
    ELSE (IF /\ BitAnd(self.sub_wins.x, Shl(major)) = 0
             /\ BitAnd(self.sub_wins.o, Shl(major)) = 0
             /\ BitAnd(self.sub_wins.tie, Shl(major)) = 0
          THEN sub_board_moves(self, major)
          ELSE <<>>) \o open_moves(self, major + 1)

\* Board::generate_moves_in_place / Board::generate_moves: the moves in the
\* order the loops write them.  No value other than 0..9 is ever stored in
\* next_sub_board; the unreachable!() arm is given no moves.
generate_moves(self) ==
    IF self.next_sub_board \in 0..8 THEN sub_board_moves(self, self.next_sub_board)
    ELSE IF self.next_sub_board = 9 THEN open_moves(self, 0)
    ELSE <<>>

\* winner whose tie test leaves out the tied sub-boards.
winner_IgnoresTied(self) ==
    IF has_winner(self.sub_wins.x) = "Yes" THEN "X"
    ELSE IF has_winner(self.sub_wins.o) = "Yes" THEN "O"
    ELSE IF BitOr(self.sub_wins.x, self.sub_wins.o) = FULL THEN "Tie"
    ELSE "InProgress"

\* Board::winner
winner(self) ==
    IF has_winner(self.sub_wins.x) = "Yes" THEN "X"
    ELSE IF has_winner(self.sub_wins.o) = "Yes" THEN "O"
    ELSE IF BitOr(BitOr(self.sub_wins.x, self.sub_wins.o), self.sub_wins.tie) = FULL
         THEN "Tie"
    ELSE "InProgress"

\* ------------------------------------------------------------ recorded games
\* Legal sequences of <<major, minor>> from the empty board.  The first three
\* are complete games: the first ends in a Tie, the second is won by X, the
\* third by O.  The fourth is an opening in which X takes cells 1, 2 and 0
\* of sub-board 0.  The fifth goes as the first for 59 plies and is then
\* won by O, with empty cells left in a sub-board that is not settled.
RecordedGames ==
  <<
    <<
       <<1,8>>, <<8,3>>, <<3,3>>, <<3,0>>, <<0,6>>, <<6,1>>, <<1,6>>, <<6,8>>, <<8,8>>, <<8,4>>,
       <<4,8>>, <<8,6>>, <<6,5>>, <<5,6>>, <<6,6>>, <<6,2>>, <<2,7>>, <<7,6>>, <<6,0>>, <<0,2>>,
       <<2,0>>, <<0,1>>, <<1,4>>, <<4,1>>, <<1,1>>, <<1,5>>, <<5,1>>, <<1,0>>, <<0,0>>, <<0,8>>,
       <<8,1>>, <<1,3>>, <<3,6>>, <<6,3>>, <<3,5>>, <<5,4>>, <<4,2>>, <<2,2>>, <<2,3>>, <<3,7>>,
       <<7,8>>, <<8,5>>, <<5,8>>, <<7,0>>, <<0,3>>, <<3,4>>, <<4,6>>, <<6,4>>, <<4,7>>, <<7,3>>,
       <<3,2>>, <<2,8>>, <<3,1>>, <<1,2>>, <<2,1>>, <<1,7>>, <<3,8>>, <<2,5>>, <<5,2>>, <<5,7>>,
       <<5,3>>, <<5,0>>, <<6,7>>, <<5,5>>
    >>,
    <<
       <<0,0>>, <<0,6>>, <<6,2>>, <<2,7>>, <<7,3>>, <<3,1>>, <<1,5>>, <<5,8>>, <<8,7>>, <<7,1>>,
       <<1,6>>, <<6,8>>, <<8,0>>, <<0,7>>, <<7,4>>, <<4,8>>, <<8,6>>, <<6,7>>, <<7,6>>, <<6,5>>,
       <<5,6>>, <<6,4>>, <<4,4>>, <<4,3>>, <<3,3>>, <<3,6>>, <<6,6>>, <<6,1>>, <<1,1>>, <<1,7>>,
       <<7,5>>, <<5,5>>, <<5,7>>, <<2,0>>, <<0,3>>, <<3,2>>, <<2,3>>, <<3,5>>, <<5,1>>, <<1,2>>,
       <<2,1>>, <<1,0>>, <<0,5>>, <<5,2>>, <<2,2>>, <<2,4>>, <<4,1>>, <<1,3>>, <<3,8>>, <<8,5>>,
       <<8,8>>, <<3,7>>, <<2,8>>, <<0,2>>, <<2,6>>, <<4,0>>, <<0,8>>, <<4,2>>, <<2,5>>, <<1,4>>,
       <<4,7>>, <<3,4>>, <<0,1>>, <<1,8>>, <<0,4>>
    >>,
    <<
       <<8,2>>, <<2,6>>, <<6,8>>, <<8,3>>, <<3,0>>, <<0,2>>, <<2,1>>, <<1,2>>, <<2,4>>, <<4,7>>,
       <<7,2>>, <<2,0>>, <<0,0>>, <<0,5>>, <<5,7>>, <<7,6>>, <<6,6>>, <<6,0>>, <<0,8>>, <<8,7>>,
       <<7,0>>, <<0,3>>, <<3,7>>, <<7,1>>, <<1,7>>, <<7,7>>, <<7,3>>, <<3,2>>, <<2,3>>, <<3,1>>,
       <<1,4>>, <<4,8>>, <<8,1>>, <<1,1>>, <<1,5>>, <<5,1>>, <<1,6>>, <<6,1>>, <<1,8>>, <<8,0>>,
       <<0,6>>, <<6,4>>, <<4,6>>, <<6,7>>, <<7,5>>, <<5,4>>, <<4,1>>, <<5,0>>, <<0,4>>, <<4,0>>,
       <<4,3>>, <<3,5>>, <<5,5>>, <<5,2>>, <<2,2>>, <<2,8>>, <<8,8>>, <<8,4>>, <<4,5>>, <<7,8>>,
       <<8,5>>, <<2,7>>, <<3,3>>, <<3,8>>, <<4,2>>, <<4,4>>
    >>,
    <<
       <<0,1>>, <<1,0>>, <<0,2>>, <<2,0>>, <<0,0>>
    >>,
    <<
       <<1,8>>, <<8,3>>, <<3,3>>, <<3,0>>, <<0,6>>, <<6,1>>, <<1,6>>, <<6,8>>, <<8,8>>, <<8,4>>,
       <<4,8>>, <<8,6>>, <<6,5>>, <<5,6>>, <<6,6>>, <<6,2>>, <<2,7>>, <<7,6>>, <<6,0>>, <<0,2>>,
       <<2,0>>, <<0,1>>, <<1,4>>, <<4,1>>, <<1,1>>, <<1,5>>, <<5,1>>, <<1,0>>, <<0,0>>, <<0,8>>,
       <<8,1>>, <<1,3>>, <<3,6>>, <<6,3>>, <<3,5>>, <<5,4>>, <<4,2>>, <<2,2>>, <<2,3>>, <<3,7>>,
       <<7,8>>, <<8,5>>, <<5,8>>, <<7,0>>, <<0,3>>, <<3,4>>, <<4,6>>, <<6,4>>, <<4,7>>, <<7,3>>,
       <<3,2>>, <<2,8>>, <<3,1>>, <<1,2>>, <<2,1>>, <<1,7>>, <<3,8>>, <<2,5>>, <<5,2>>, <<6,7>>
    >>
  >>

\* ------------------------------------------------------------------- state
VARIABLES
    board,      \* the host's current Board
    prev,       \* the Board the last advance_state call was made on
    lastMove,   \* the Move of the last successful advance_state call
    result,     \* "init", or the last advance_state call's "some" / "absent"
    line,       \* which recorded game the host follows
    ply,        \* how many of its moves were fed so far
    dev,        \* successful moves played off the recorded game
    nodes,      \* MctsEngine.bump: every Node allocated, by handle 1..Len
    root,       \* MctsEngine.root: 0 for None, else a handle
    pc,         \* "idle", "search" (inside run_search), "panic", or
                \* "expand_panic" (the expect of expand failed)
    iters,      \* run_search's local counter i: the value it returns
    best,       \* the Move the last best_move call returned, if it was the
                \* engine's last operation
    launched,   \* per handle: rollouts launched at that node
    rollouts,   \* rollouts run on the current tree
    bp          \* the last back_propagate call: its node and its winner

gameVars == <<board, prev, lastMove, result, line, ply, dev>>
engineVars == <<nodes, root, pc, iters, best, launched, rollouts, bp>>
vars == <<board, prev, lastMove, result, line, ply, dev,
          nodes, root, pc, iters, best, launched, rollouts, bp>>

NoMove == Move(9, 9)

\* Option<Move>
NoneMove == [some |-> FALSE]
SomeMove(m) == [some |-> TRUE, val |-> m]

NoBp == [node |-> 0, winner |-> "InProgress"]

\* MctsEngine::new
NewEngine ==
    /\ nodes = <<>>
    /\ root = 0
    /\ pc = "idle"
    /\ iters = 0
    /\ best = NoneMove
    /\ launched = <<>>
    /\ rollouts = 0
    /\ bp = NoBp

Init ==
    /\ board = NewBoard
    /\ prev = NewBoard
    /\ lastMove = NoMove
    /\ result = "init"
    /\ line \in 1..Len(RecordedGames)
    /\ ply = 0
    /\ dev = 0
    /\ NewEngine

\* board = board.advance_state(m), the host keeping its Board on None; a
\* move off the recorded game (`off`) is counted when it succeeds.
Advance(m, off) ==
    LET r == advance_state(board, m)
    IN  /\ prev' = board
        /\ IF r.some
           THEN board' = r.val /\ lastMove' = m /\ result' = "some"
                /\ dev' = dev + off
           ELSE board' = board /\ lastMove' = NoMove /\ result' = "absent"
                /\ dev' = dev

\* The host feeds the next move of the recorded game; it does so between
\* engines, an engine living for one turn of the game loop.
FollowGame ==
    /\ dev = 0
    /\ root = 0 /\ pc = "idle"
    /\ ply < Len(RecordedGames[line])
    /\ Advance(Move(RecordedGames[line][ply + 1][1], RecordedGames[line][ply + 1][2]), 0)
    /\ ply' = ply + 1
    /\ UNCHANGED line
    /\ UNCHANGED engineVars

\* The host feeds an arbitrary move, in range or not, legal or not.
TryMove(m) ==
    /\ dev < MaxDev
    /\ Advance(m, 1)
    /\ UNCHANGED <<line, ply>>
    /\ UNCHANGED engineVars

\* board = unsafe { board.advance_state_unsafe(*m) } for a move m drawn from
\* board.generate_moves(), as rollout and expand apply it.
UncheckedMove ==
    /\ dev < MaxDev
    /\ LET moves == generate_moves(board)
       IN  \E k \in 1..Len(moves) :
               /\ prev' = board
               /\ lastMove' = moves[k]
               /\ board' = advance_state_unsafe(board, moves[k])
    /\ result' = "some"
    /\ dev' = dev + 1
    /\ UNCHANGED <<line, ply>>
    /\ UNCHANGED engineVars

Next ==
    \/ FollowGame
    \/ \E major \in 0..MaxIndex, minor \in 0..MaxIndex : TryMove(Move(major, minor))
    \/ UncheckedMove

Spec == Init /\ [][Next]_vars

\* ----------------------------------------------------------------- engine.rs
\* Node.wins is an f32 that only ever grows by 1.0 or 0.5; it is kept here
\* as a whole number of halves.
ONE == 2
HALF == 1

\* Node::new.  The order unexpanded.shuffle(&mut rng) leaves is read by
\* nothing but the pop of expand, one move at a time, so each random draw is
\* made when its move is popped (expand's k): `unexpanded` holds the moves
\* not popped yet, listed in the order of generate_moves.
NewNode(parent, b, previous_move) ==
    [ parent        |-> parent,
      expanded      |-> <<>>,
      unexpanded    |-> generate_moves(b),
      board         |-> b,
      is_terminal   |-> winner(b) # "InProgress",
      previous_move |-> previous_move,
      wins          |-> 0,
      visits        |-> 0 ]

\* Node::is_fully_expanded
is_fully_expanded(node) == node.unexpanded = <<>>

\* expand handing Node::new the popped move with major and minor exchanged.
expand_SwappedMove(ns, self, k) ==
    LET un == ns[self].unexpanded
        m == un[k]
        next == advance_state_unsafe(ns[self].board, m)
        next_node == NewNode(self, next, SomeMove(Move(m.minor, m.major)))
        popped == [ns EXCEPT ![self].unexpanded =
                       SubSeq(un, 1, k - 1) \o SubSeq(un, k + 1, Len(un))]
    IN  Append([popped EXCEPT ![self].expanded = Append(@, Len(ns) + 1)], next_node)

\* expand reading the last unexpanded move without removing it.
expand_NoPop(ns, self, k) ==
    LET un == ns[self].unexpanded
        m == un[k]
        next == advance_state_unsafe(ns[self].board, m)
        next_node == NewNode(self, next, SomeMove(m))
    IN  Append([ns EXCEPT ![self].expanded = Append(@, Len(ns) + 1)], next_node)

\* Node::expand on a node with an unexpanded move, the shuffle having put
\* the k-th of them last: the arena afterwards.
expand(ns, self, k) ==
    LET un == ns[self].unexpanded
        m == un[k]
        next == advance_state_unsafe(ns[self].board, m)
        next_node == NewNode(self, next, SomeMove(m))
        popped == [ns EXCEPT ![self].unexpanded =
                       SubSeq(un, 1, k - 1) \o SubSeq(un, k + 1, Len(un))]
    IN  Append([popped EXCEPT ![self].expanded = Append(@, Len(ns) + 1)], next_node)

RECURSIVE rollout(_)
\* Node::rollout: the winners the random playout can return; "Panic" when
\* the draw from an empty move list unwraps None.
rollout(b) ==
    LET w == winner(b)
        moves == generate_moves(b)
    IN  IF w # "InProgress" THEN {w}
        ELSE IF moves = <<>> THEN {"Panic"}
        ELSE UNION { rollout(advance_state_unsafe(b, moves[k])) : k \in 1..Len(moves) }

RECURSIVE rollout_runs_DoWhile(_, _)
\* rollout_runs with the loop test moved to the end of the body: a move is
\* drawn and played before winner() is first looked at.
rollout_runs_DoWhile(b, plies) ==
    LET moves == generate_moves(b)
    IN  IF moves = <<>> THEN {[winner |-> "Panic", plies |-> plies]}
        ELSE UNION { LET next == advance_state_unsafe(b, moves[k])
                     IN  IF winner(next) # "InProgress"
                         THEN {[winner |-> winner(next), plies |-> plies + 1]}
                         ELSE rollout_runs_DoWhile(next, plies + 1)
                     : k \in 1..Len(moves) }

RECURSIVE rollout_runs(_, _)
\* Node::rollout with its loop iterations counted from `plies`: the
\* (winner, plies) pairs the random playout can end with.
rollout_runs(b, plies) ==
    LET w == winner(b)
        moves == generate_moves(b)
    IN  IF w # "InProgress" THEN {[winner |-> w, plies |-> plies]}
        ELSE IF moves = <<>> THEN {[winner |-> "Panic", plies |-> plies]}
        ELSE UNION { rollout_runs(advance_state_unsafe(b, moves[k]), plies + 1)
                     : k \in 1..Len(moves) }

\* What one test of back_propagate adds to a win count, for a node whose
\* Board has `player` to move.
win_delta(player, w) ==
    IF (player = "X" /\ w = "O") \/ (player = "O" /\ w = "X") THEN ONE
    ELSE IF w = "Tie" THEN HALF
    ELSE 0

RECURSIVE walk_up_VisitsSelf(_, _, _, _)
\* walk_up counting each ancestor's visit on the starting node, the way it
\* credits the wins.
walk_up_VisitsSelf(ns, self, node, w) ==
    IF ns[node].parent = 0 THEN ns
    ELSE LET parent == ns[node].parent
             won == [ns EXCEPT ![self].wins =
                         @ + win_delta(ns[parent].board.player_to_move, w)]
         IN  walk_up_VisitsSelf([won EXCEPT ![self].visits = @ + 1], self, parent, w)

RECURSIVE walk_up(_, _, _, _)
\* The `while let Some(parent) = node.parent` loop of back_propagate.
walk_up(ns, self, node, w) ==
    IF ns[node].parent = 0 THEN ns
    ELSE LET parent == ns[node].parent
             won == [ns EXCEPT ![self].wins =
                         @ + win_delta(ns[parent].board.player_to_move, w)]
         IN  walk_up([won EXCEPT ![parent].visits = @ + 1], self, parent, w)

\* Node::back_propagate: the arena afterwards.
back_propagate(ns, self, w) ==
    LET visited == [ns EXCEPT ![self].visits = @ + 1]
        won == [visited EXCEPT ![self].wins =
                    @ + win_delta(ns[self].board.player_to_move, w)]
    IN  walk_up(won, self, self, w)

\* Node::uct: w / (n + 1) + 2*sqrt(2) / (n + 1), kept as the pair it is
\* computed from (w in halves).
uct(node) == [w |-> node.wins, n_plus_c |-> node.visits + 1]

\* uct > 0.0, i.e. (w/2 + 2*sqrt(2)) > 0 for a whole number w of halves.
uct_gt_zero(u) == u.w >= -5

\* a > b for two uct values: (a.w + 4*sqrt(2)) * b.n > (b.w + 4*sqrt(2)) * a.n,
\* i.e. l > 4*sqrt(2) * d, decided exactly (32 = (4*sqrt(2))^2).  Within the
\* bounds of this model the two sides differ by far more than f32 rounding.
uct_gt(a, b) ==
    LET l == a.w * b.n_plus_c - b.w * a.n_plus_c
        d == a.n_plus_c - b.n_plus_c
    IN  IF d = 0 THEN l > 0
        ELSE IF d > 0 THEN l > 0 /\ l * l > 32 * d * d
        ELSE l >= 0 \/ l * l < 32 * d * d

RECURSIVE select_loop(_, _, _, _)
\* The loop of select_best_child_uct over children[k..], best_child being 0
\* while best_uct is still 0.0.
select_loop(ns, children, k, best_child) ==
    IF k > Len(children) THEN best_child
    ELSE LET u == uct(ns[children[k]])
             better == IF best_child = 0 THEN uct_gt_zero(u)
                       ELSE uct_gt(u, uct(ns[best_child]))
         IN  select_loop(ns, children, k + 1,
                         IF better THEN children[k] ELSE best_child)

\* Node::select_best_child_uct: a handle, or 0 for None.
select_best_child_uct(ns, self) == select_loop(ns, ns[self].expanded, 1, 0)

RECURSIVE traverse_IgnoresTerminal(_, _)
\* traverse whose loop tests is_fully_expanded() only.
traverse_IgnoresTerminal(ns, node) ==
    IF is_fully_expanded(ns[node])
    THEN IF select_best_child_uct(ns, node) # 0
         THEN traverse_IgnoresTerminal(ns, select_best_child_uct(ns, node))
         ELSE node
    ELSE node

RECURSIVE traverse(_, _)
\* Node::traverse
traverse(ns, node) ==
    IF is_fully_expanded(ns[node]) /\ ~ns[node].is_terminal
    THEN IF select_best_child_uct(ns, node) # 0
         THEN traverse(ns, select_best_child_uct(ns, node))
         ELSE node
    ELSE node

RECURSIVE max_by_visits_ByWins(_, _, _, _)
\* max_by_key keyed on the win score instead of the visits.
max_by_visits_ByWins(ns, children, k, max) ==
    IF k > Len(children) THEN max
    ELSE max_by_visits_ByWins(ns, children, k + 1,
                              IF ns[children[k]].wins >= ns[max].wins
                              THEN children[k] ELSE max)

RECURSIVE max_by_visits(_, _, _, _)
\* Iterator::max_by_key(|x| x.visits.get()) over children[k..]: the last of
\* the children with the greatest key.
max_by_visits(ns, children, k, max) ==
    IF k > Len(children) THEN max
    ELSE max_by_visits(ns, children, k + 1,
                       IF ns[children[k]].visits >= ns[max].visits
                       THEN children[k] ELSE max)

RECURSIVE best_move_Leaf(_, _)
\* best_move that follows the most visited children down to a leaf and
\* returns the move that led to the leaf.
best_move_Leaf(ns, r) ==
    LET c == max_by_visits(ns, ns[r].expanded, 1, ns[r].expanded[1])
    IN  IF ns[c].expanded = <<>> THEN ns[c].previous_move.val
        ELSE best_move_Leaf(ns, c)

\* MctsEngine::best_move with a root that has an expanded child.
best_move(ns, r) ==
    ns[max_by_visits(ns, ns[r].expanded, 1, ns[r].expanded[1])].previous_move.val

\* Empty cells in the sub-boards not settled in sub_wins.
OpenCells(b) == Len(open_moves(b, 0))

RECURSIVE SumSeq(_)
SumSeq(q) == IF q = <<>> THEN 0 ELSE Head(q) + SumSeq(Tail(q))

\* Rollouts the engine has run so far, over all its trees.
Launches == SumSeq(launched)

\* initialize calls so far: each allocated one parentless Node.
Inits == Cardinality({n \in 1..Len(nodes) : nodes[n].parent = 0})

\* initialize that sets the root only while there is none: the new Node is
\* allocated, the root of an earlier initialize stays.
Initialize_KeepsRoot ==
    /\ pc = "idle"
    /\ Inits < MaxInits
    /\ Len(nodes) < MaxNodes
    /\ OpenCells(board) <= MaxOpenCells
    /\ nodes' = Append(nodes, NewNode(0, board, NoneMove))
    /\ root' = IF root = 0 THEN Len(nodes) + 1 ELSE root
    /\ launched' = Append(launched, 0)
    /\ rollouts' = 0
    /\ best' = NoneMove
    /\ bp' = NoBp
    /\ UNCHANGED <<pc, iters>>
    /\ UNCHANGED gameVars

\* mcts.initialize(board) on the host's Board.
Initialize ==
    /\ pc = "idle"
    /\ Inits < MaxInits
    /\ Len(nodes) < MaxNodes
    /\ OpenCells(board) <= MaxOpenCells
    /\ nodes' = Append(nodes, NewNode(0, board, NoneMove))
    /\ root' = Len(nodes) + 1
    /\ launched' = Append(launched, 0)
    /\ rollouts' = 0
    /\ best' = NoneMove
    /\ bp' = NoBp
    /\ UNCHANGED <<pc, iters>>
    /\ UNCHANGED gameVars

\* run_search is entered: i = 0.
RunSearchBegin ==
    /\ pc = "idle"
    /\ pc' = "search"
    /\ iters' = 0
    /\ best' = NoneMove
    /\ UNCHANGED <<nodes, root, launched, rollouts, bp>>
    /\ UNCHANGED gameVars

\* An iteration without a root: expect("must have a root node") panics.
IterationNoRoot ==
    /\ pc = "search"
    /\ root = 0
    /\ pc' = "panic"
    /\ UNCHANGED <<nodes, root, iters, best, launched, rollouts, bp>>
    /\ UNCHANGED gameVars

\* An iteration whose traverse ends on a fully expanded node: rollout and
\* back_propagate from it, then `continue`.
IterationRollout ==
    /\ pc = "search"
    /\ root # 0
    /\ Launches < MaxIters
    /\ \E node \in {traverse(nodes, root)} :
           /\ is_fully_expanded(nodes[node])
           /\ \E w \in rollout(nodes[node].board) :
                 IF w = "Panic"
                 THEN /\ pc' = "panic"
                      /\ UNCHANGED <<nodes, launched, rollouts, bp>>
                 ELSE /\ nodes' = back_propagate(nodes, node, w)
                      /\ launched' = [launched EXCEPT ![node] = @ + 1]
                      /\ rollouts' = rollouts + 1
                      /\ bp' = [node |-> node, winner |-> w]
                      /\ pc' = pc
    /\ UNCHANGED <<root, iters, best>>
    /\ UNCHANGED gameVars

\* IterationExpand without the is_fully_expanded() test of run_search: every
\* iteration goes on to node.expand.
IterationExpand_NoFullCheck ==
    /\ pc = "search"
    /\ root # 0
    /\ Launches < MaxIters
    /\ Len(nodes) < MaxNodes
    /\ \E node \in {traverse(nodes, root)} :
           IF nodes[node].unexpanded = <<>>
           THEN /\ pc' = "expand_panic"
                /\ UNCHANGED <<nodes, launched, iters, rollouts, bp>>
           ELSE \E w \in rollout(nodes[node].board),
                   k \in 1..Len(nodes[node].unexpanded) :
                   IF w = "Panic"
                   THEN /\ pc' = "panic"
                        /\ nodes' = expand(nodes, node, k)
                        /\ launched' = Append(launched, 0)
                        /\ UNCHANGED <<iters, rollouts, bp>>
                   ELSE /\ nodes' = back_propagate(expand(nodes, node, k), node, w)
                        /\ launched' = Append([launched EXCEPT ![node] = @ + 1], 0)
                        /\ rollouts' = rollouts + 1
                        /\ bp' = [node |-> node, winner |-> w]
                        /\ iters' = iters + 1
                        /\ pc' = pc
    /\ UNCHANGED <<root, best>>
    /\ UNCHANGED gameVars

\* An iteration whose traverse ends on a node that is not fully expanded:
\* node.expand, node.rollout, node.back_propagate, i += 1.  The pop of
\* expand is followed by expect("node cannot be fully expanded"), which
\* panics on an empty list.
IterationExpand ==
    /\ pc = "search"
    /\ root # 0
    /\ Launches < MaxIters
    /\ Len(nodes) < MaxNodes
    /\ \E node \in {traverse(nodes, root)} :
           /\ ~is_fully_expanded(nodes[node])
           /\ IF nodes[node].unexpanded = <<>>
              THEN /\ pc' = "expand_panic"
                   /\ UNCHANGED <<nodes, launched, iters, rollouts, bp>>
              ELSE \E w \in rollout(nodes[node].board),
                      k \in 1..Len(nodes[node].unexpanded) :
                      IF w = "Panic"
                      THEN /\ pc' = "panic"
                           /\ nodes' = expand(nodes, node, k)
                           /\ launched' = Append(launched, 0)
                           /\ UNCHANGED <<iters, rollouts, bp>>
                      ELSE /\ nodes' = back_propagate(expand(nodes, node, k), node, w)
                           /\ launched' = Append([launched EXCEPT ![node] = @ + 1], 0)
                           /\ rollouts' = rollouts + 1
                           /\ bp' = [node |-> node, winner |-> w]
                           /\ iters' = iters + 1
                           /\ pc' = pc
    /\ UNCHANGED <<root, best>>
    /\ UNCHANGED gameVars

\* The time budget is used up: run_search returns i.
RunSearchReturn ==
    /\ pc = "search"
    /\ pc' = "idle"
    /\ UNCHANGED <<nodes, root, iters, best, launched, rollouts, bp>>
    /\ UNCHANGED gameVars

\* mcts.best_move()
BestMove ==
    /\ pc = "idle"
    /\ IF root = 0
       THEN pc' = "panic" /\ best' = NoneMove
       ELSE IF nodes[root].expanded = <<>>
       THEN pc' = "panic" /\ best' = NoneMove
       ELSE pc' = pc /\ best' = SomeMove(best_move(nodes, root))
    /\ UNCHANGED <<nodes, root, iters, launched, rollouts, bp>>
    /\ UNCHANGED gameVars

NextEngine ==
    \/ FollowGame
    \/ Initialize
    \/ RunSearchBegin
    \/ IterationNoRoot
    \/ IterationRollout
    \/ IterationExpand
    \/ RunSearchReturn
    \/ BestMove

SpecEngine == Init /\ [][NextEngine]_vars

\* ------------------------------------------------- vocabulary of the claims
\* Bit i of a bitfield, read arithmetically.
Bit(bits, i) == (bits \div (2 ^ i)) % 2 = 1

\* The cells (or sub-board indices) a bitfield holds.
Cells(bits) == {i \in 0..15 : Bit(bits, i)}

\* The 8 three-in-a-row lines of a 3x3 grid, as sets of indices.
Lines == { {0, 1, 2}, {3, 4, 5}, {6, 7, 8},
           {0, 3, 6}, {1, 4, 7}, {2, 5, 8},
           {0, 4, 8}, {2, 4, 6} }

HasLine(bits) == \E l \in Lines : l \subseteq Cells(bits)

\* Sub-board i is settled in sub_wins: won by X, won by O, or tied.
Settled(b, i) ==
    Bit(b.sub_wins.x, i) \/ Bit(b.sub_wins.o, i) \/ Bit(b.sub_wins.tie, i)

\* Cell j of sub-board i is taken by either player.
Occupied(b, i, j) == Bit(b.board[i].x, j) \/ Bit(b.board[i].o, j)

\* The moves a caller may pass, in range or not.
AnyMove == {Move(i, j) : i \in 0..MaxIndex, j \in 0..MaxIndex}

\* ---------------------------------------------------------------- claims
\* C1: on every reachable Board, each move generate_moves() returns is
\* accepted by the checked advance_state (it returns Some).
C1_GeneratedMovesAccepted ==
    LET moves == generate_moves(board)
    IN  \A k \in 1..Len(moves) : advance_state(board, moves[k]).some

\* C1 witness: a free-choice position (next_sub_board = 9) with a settled
\* sub-board that still has an empty cell, and moves to generate.
C1_Witness ==
    /\ result = "some"
    /\ board.next_sub_board = 9
    /\ Len(generate_moves(board)) > 0
    /\ \E i \in 0..8, j \in 0..8 : Settled(board, i) /\ ~Occupied(board, i, j)

\* C2: the checked advance_state returns None for a move with an index above
\* 8, onto an occupied cell, into a sub-board other than the forced one, or
\* into a settled sub-board; and a None leaves the Board as it was.
C2_InvalidMoveRejected ==
    /\ \A m \in AnyMove :
          (\/ m.major > 8
           \/ m.minor > 8
           \/ Occupied(board, m.major, m.minor)
           \/ (board.next_sub_board # 9 /\ board.next_sub_board # m.major)
           \/ Settled(board, m.major))
          => advance_state(board, m) = None
    /\ result = "absent" => board = prev

\* C2 witness: a call returned None on a Board where some in-range move onto
\* an empty cell, with free choice, is rejected only because its sub-board
\* is settled.
C2_Witness ==
    /\ result = "absent"
    /\ board.next_sub_board = 9
    /\ \E m \in AnyMove :
          /\ m.major <= 8 /\ m.minor <= 8
          /\ ~Occupied(board, m.major, m.minor)
          /\ Settled(board, m.major)
          /\ advance_state(board, m) = None

\* C3: after a successful transition by (major, minor) the side to move is
\* flipped and next_sub_board is minor unless sub-board minor is settled
\* after the update, and then 9; Move{4,4} on the empty board gives
\* next_sub_board = 4 and O to move.
C3_NextSubBoard ==
    /\ result = "some" =>
          /\ board.player_to_move # prev.player_to_move
          /\ board.next_sub_board =
                 IF Settled(board, lastMove.minor) THEN 9 ELSE lastMove.minor
    /\ (result = "some" /\ prev = NewBoard /\ lastMove = Move(4, 4)) =>
          (board.next_sub_board = 4 /\ board.player_to_move = "O")

\* C3 witness: a move with minor = major that settles its own sub-board, so
\* the pointer resets to 9 because of this very move.
C3_Witness ==
    /\ result = "some"
    /\ lastMove.major = lastMove.minor
    /\ ~Settled(prev, lastMove.minor)
    /\ Settled(board, lastMove.minor)
    /\ board.next_sub_board = 9

\* C4: winner() is Tie exactly when all 9 sub-board indices are settled and
\* neither sub_wins.x nor sub_wins.o holds a three-in-a-row line.
C4_TieIff ==
    winner(board) = "Tie" <=>
        /\ \A i \in 0..8 : Settled(board, i)
        /\ ~HasLine(board.sub_wins.x)
        /\ ~HasLine(board.sub_wins.o)

\* C4 witness: a tied game in which a sub-board is itself tied.
C4_Witness == winner(board) = "Tie" /\ board.sub_wins.tie # 0

\* C5: each sub-board index has at most one of the sub_wins bits x, o, tie.
C5_OneOutcomePerSubBoard ==
    \A i \in 0..8 :
        Cardinality({f \in {"x", "o", "tie"} : Bit(board.sub_wins[f], i)}) <= 1

\* C5 witness: a sub-board was just won by the move that also filled its
\* last empty cell.
C5_Witness ==
    /\ result = "some"
    /\ ~Settled(prev, lastMove.major)
    /\ Bit(board.sub_wins.x, lastMove.major) \/ Bit(board.sub_wins.o, lastMove.major)
    /\ \A j \in 0..8 : Occupied(board, lastMove.major, j)

\* C6: a sub_wins bit set in one Board is set in every later Board.
C6_SettledStays ==
    [][\A f \in {"x", "o", "tie"} :
           Cells(board.sub_wins[f]) \subseteq Cells(board'.sub_wins[f])]_vars

\* C6 witness: a move settled a sub-board while others were settled already.
C6_Witness ==
    /\ result = "some"
    /\ \E i \in 0..8 : Settled(prev, i)
    /\ ~Settled(prev, lastMove.major)
    /\ Settled(board, lastMove.major)

\* C7: in no SubBoard is a cell occupied by both players.
C7_NoSharedCell ==
    \A i \in 0..8 : Cells(board.board[i].x) \cap Cells(board.board[i].o) = {}

\* C7 witness: a sub-board in which both players hold cells.
C7_Witness ==
    /\ result = "some"
    /\ \E i \in 0..8 : board.board[i].x # 0 /\ board.board[i].o # 0

\* The expanded children of node n.
Children(n) == {nodes[n].expanded[k] : k \in 1..Len(nodes[n].expanded)}

RECURSIVE PathToRoot(_)
\* Node n and its ancestors, up to the root of its tree.
PathToRoot(n) == IF n = 0 THEN {} ELSE {n} \cup PathToRoot(nodes[n].parent)

\* The rollouts launched at n or at one of its descendants.
LaunchedBelow(n) ==
    SumSeq([m \in 1..Len(nodes) |-> IF n \in PathToRoot(m) THEN launched[m] ELSE 0])

\* The sum of the visit counts of the children of n.
ChildVisits(n) ==
    SumSeq([m \in 1..Len(nodes) |-> IF nodes[m].parent = n THEN nodes[m].visits ELSE 0])

\* What the claimed back-propagation adds to the win score (in halves) of a
\* node with `player` to move: 1 if the player lost, 0.5 on a tie.
ClaimedGain(player, w) ==
    IF w = "Tie" THEN 1
    ELSE IF (w = "X" /\ player = "O") \/ (w = "O" /\ player = "X") THEN 2
    ELSE 0

\* C8: mass conservation: the root's visits are the rollouts run on its tree,
\* and every node's visits are the rollouts launched at it or below it, i.e.
\* those launched at it plus its children's visits.
C8_MassConservation ==
    /\ root # 0 => nodes[root].visits = rollouts
    /\ \A n \in 1..Len(nodes) :
          /\ nodes[n].visits = LaunchedBelow(n)
          /\ nodes[n].visits = launched[n] + ChildVisits(n)

\* C8 witness: run_search has returned after three rollouts or more, one of
\* them launched at a child of the root.
C8_Witness ==
    /\ pc = "idle"
    /\ root # 0
    /\ rollouts >= 3
    /\ \E n \in Children(root) : launched[n] >= 1

\* C9: back_propagate(winner) adds 1 to the visits of every node from the
\* starting node up to the root, adds to that same node's win score 1 if its
\* side to move lost, 0.5 on a tie and 0 otherwise, and leaves every other
\* node as it was.
C9_EachNodeOnPathOnce ==
    [][rollouts' = rollouts + 1 =>
         \A n \in 1..Len(nodes) :
             IF n \in PathToRoot(bp'.node)
             THEN /\ nodes'[n].visits = nodes[n].visits + 1
                  /\ nodes'[n].wins = nodes[n].wins
                         + ClaimedGain(nodes[n].board.player_to_move, bp'.winner)
             ELSE /\ nodes'[n].visits = nodes[n].visits
                  /\ nodes'[n].wins = nodes[n].wins]_vars

\* C10: best_move() returns the originating move of a child of the root
\* whose visits are at least those of every other child.
C10_BestMoveMostVisited ==
    best.some =>
        \E c \in Children(root) :
            /\ nodes[c].previous_move = best
            /\ \A d \in Children(root) : nodes[d].visits <= nodes[c].visits

\* C10 witness: best_move answered on a root with children of different
\* visit counts.
C10_Witness ==
    /\ best.some
    /\ \E c, d \in Children(root) :
          /\ nodes[c].previous_move = best
          /\ nodes[d].visits < nodes[c].visits

\* C11: engine misuse is a hard failure: a run_search entered without a root
\* never returns, and best_move returns a move only with a root that has an
\* expanded child.
C11_MisuseFails ==
    [][/\ (pc = "search" /\ root = 0) => pc' # "idle"
       /\ (best'.some /\ best' # best) =>
              (root # 0 /\ nodes[root].expanded # <<>>)]_vars

\* C12: with a root whose Board has exactly one legal move, once a rollout
\* has run on the tree and run_search has returned, best_move has a child
\* to answer with and answers that move; a move best_move returned on such
\* a root is that move.
C12_SingleMoveReturned ==
    (root # 0 /\ Len(generate_moves(nodes[root].board)) = 1) =>
        /\ (pc = "idle" /\ rollouts >= 1) =>
               /\ nodes[root].expanded # <<>>
               /\ best_move(nodes, root) = generate_moves(nodes[root].board)[1]
        /\ best.some => best.val = generate_moves(nodes[root].board)[1]

\* C12 witness: best_move answered on a root with a single legal move whose
\* major and minor differ.
C12_Witness ==
    /\ root # 0
    /\ Len(generate_moves(nodes[root].board)) = 1
    /\ rollouts >= 1
    /\ best.some
    /\ best.val.major # best.val.minor

\* C13: a reachable Board on which generate_moves() returns no move has a
\* winner() other than InProgress, so the draw of a random move in rollout
\* never finds the list empty.
C13_NoMovesOnlyWhenOver ==
    /\ generate_moves(board) = <<>> => winner(board) # "InProgress"
    /\ OpenCells(board) <= MaxOpenCells => "Panic" \notin rollout(board)

\* C13 witness: a Board with no legal move, reached by a move into a
\* sub-board that the move tied.
C13_Witness ==
    /\ result = "some"
    /\ generate_moves(board) = <<>>
    /\ Bit(board.sub_wins.tie, lastMove.major)
    /\ ~Bit(prev.sub_wins.tie, lastMove.major)

RECURSIVE TreeOf(_, _)
\* The nodes of arena ns reachable from node r through expanded children.
TreeOf(ns, r) ==
    {r} \cup UNION { TreeOf(ns, ns[r].expanded[k]) : k \in 1..Len(ns[r].expanded) }

\* C15: every initialize(board), whatever the engine did before, leaves the
\* engine idle with a root that is a newly allocated Node holding the host's
\* Board, with no parent, no originating move, visits 0, win score 0 and no
\* expanded child; nothing but the root is reachable from it.
C15_InitializeFreshRoot ==
    [][Inits' = Inits + 1 =>
         /\ pc' = "idle"
         /\ root' \in (1..Len(nodes')) \ (1..Len(nodes))
         /\ nodes'[root'].board = board
         /\ nodes'[root'].parent = 0
         /\ nodes'[root'].previous_move = NoneMove
         /\ nodes'[root'].visits = 0
         /\ nodes'[root'].wins = 0
         /\ nodes'[root'].expanded = <<>>
         /\ TreeOf(nodes', root') = {root'}]_vars

\* C15 witness: the state a second initialize leaves, its first tree having
\* been searched (the old root has children and visits).
C15_Witness ==
    /\ pc = "idle"
    /\ Inits = 2
    /\ root = Len(nodes)
    /\ nodes[root].parent = 0
    /\ nodes[1].expanded # <<>>
    /\ nodes[1].visits >= 2
    /\ rollouts = 0

\* C16: an iteration that expands a child launches its rollout at that new
\* child and starts back_propagate there, so when the iteration ends every
\* non-root node has visits >= 1.
C16_NewChildVisited ==
    [][(Len(nodes') = Len(nodes) + 1 /\ nodes'[Len(nodes')].parent # 0) =>
         /\ pc' # "panic" => bp'.node = Len(nodes')
         /\ pc' # "panic" => launched'[Len(nodes')] = 1
         /\ \A n \in 1..Len(nodes') :
                nodes'[n].parent # 0 => nodes'[n].visits >= 1]_vars

\* C17: every iteration of run_search, with or without an expansion, adds
\* one to the count run_search returns (so that the count is the number of
\* rollouts, and the root's visits after a first search).
C17_EveryIterationCounted ==
    [][rollouts' = rollouts + 1 => iters' = iters + 1]_vars

\* C18: a node whose Board is terminal never has an expanded child: an
\* iteration that traverses to it rolls out from it and allocates no Node.
C18_TerminalIsLeaf ==
    \A n \in 1..Len(nodes) :
        winner(nodes[n].board) # "InProgress" => nodes[n].expanded = <<>>

\* The unexpanded moves of node n of arena ns, followed by the originating
\* moves of its expanded children.
MovesOf(ns, n) ==
    ns[n].unexpanded \o
    [k \in 1..Len(ns[n].expanded) |-> ns[ns[n].expanded[k]].previous_move.val]

\* In arena ns, the moves of node n are those of generate_moves on its
\* Board, each once, and each expanded child has n as parent and the Board
\* its originating move leads to.
Partitioned(ns, n) ==
    \A gen \in {generate_moves(ns[n].board)}, mvs \in {MovesOf(ns, n)} :
        /\ Len(mvs) = Len(gen)
        /\ {mvs[k] : k \in 1..Len(mvs)} = {gen[k] : k \in 1..Len(gen)}
        /\ \A j, k \in 1..Len(mvs) : mvs[j] = mvs[k] => j = k
        /\ \A k \in 1..Len(ns[n].expanded) :
               LET c == ns[ns[n].expanded[k]]
               IN  /\ c.parent = n
                   /\ c.previous_move.some
                   /\ c.board = advance_state_unsafe(ns[n].board, c.previous_move.val)

\* C19: a step that expands a node takes exactly one move out of its
\* unexpanded moves and appends exactly one child, the newly allocated Node;
\* and at all times, for every node, the unexpanded moves together with the
\* originating moves of the expanded children are the moves of
\* generate_moves(node.board), each once.  The latter is stated for a node
\* when it is allocated and after every step that changes its move lists;
\* no step changes the Board, parent or originating move of a node.
C19_MovesPartitioned ==
    [][/\ \A n \in 1..Len(nodes) :
              /\ nodes'[n].board = nodes[n].board
              /\ nodes'[n].parent = nodes[n].parent
              /\ nodes'[n].previous_move = nodes[n].previous_move
              /\ nodes'[n].expanded # nodes[n].expanded =>
                     /\ Len(nodes') = Len(nodes) + 1
                     /\ nodes'[n].expanded = Append(nodes[n].expanded, Len(nodes'))
              /\ nodes'[n].unexpanded # nodes[n].unexpanded =>
                     /\ nodes'[n].expanded # nodes[n].expanded
                     /\ Len(nodes'[n].unexpanded) = Len(nodes[n].unexpanded) - 1
                     /\ \A k \in 1..Len(nodes'[n].unexpanded) :
                            \E j \in 1..Len(nodes[n].unexpanded) :
                                nodes'[n].unexpanded[k] = nodes[n].unexpanded[j]
       /\ \A n \in 1..Len(nodes') :
              (\/ n > Len(nodes)
               \/ nodes'[n].expanded # nodes[n].expanded
               \/ nodes'[n].unexpanded # nodes[n].unexpanded)
              => Partitioned(nodes', n)]_vars

\* C19 witness: a root with two expanded children, one of them with a child
\* of its own and the other with a move still unexpanded.
C19_Witness ==
    /\ root # 0
    /\ Len(nodes[root].expanded) = 2
    /\ \E n \in Children(root) : nodes[n].expanded # <<>>
    /\ \E n \in Children(root) : nodes[n].unexpanded # <<>>

\* The empty cells of a Board, settled sub-boards included.
EmptyCells(b) ==
    Cardinality({c \in (0..8) \X (0..8) : ~Occupied(b, c[1], c[2])})

\* C20: rollout terminates: on every reachable Board each move of
\* generate_moves fills one cell that was empty, so a playout is over after
\* at most as many plies as there are empty cells (81 on the empty Board);
\* the playouts of a Board end with X, O or Tie, never InProgress and never
\* on an empty move list, and a playout of a terminal Board has zero plies.
C20_RolloutTerminates ==
    /\ EmptyCells(board) \in 0..81
    /\ LET moves == generate_moves(board)
       IN  \A k \in 1..Len(moves) :
               LET next == advance_state_unsafe(board, moves[k])
               IN  /\ ~Occupied(board, moves[k].major, moves[k].minor)
                   /\ EmptyCells(next) = EmptyCells(board) - 1
    /\ OpenCells(board) <= MaxOpenCells =>
           /\ \A r \in rollout_runs(board, 0) :
                  /\ r.winner \in {"X", "O", "Tie"}
                  /\ r.plies <= EmptyCells(board)
           /\ winner(board) # "InProgress" =>
                  rollout_runs(board, 0) = {[winner |-> winner(board), plies |-> 0]}

\* C20 witness: an unfinished Board whose playouts take two plies and end
\* with different winners.
C20_Witness ==
    /\ winner(board) = "InProgress"
    /\ OpenCells(board) <= MaxOpenCells
    /\ \E r, q \in rollout_runs(board, 0) :
           r.plies = 2 /\ q.winner # r.winner

\* The moves generate_moves is to return on Board b, as a set.
OpenMoveSet(b) ==
    IF b.next_sub_board \in 0..8
    THEN {Move(b.next_sub_board, j) : j \in {j \in 0..8 : ~Occupied(b, b.next_sub_board, j)}}
    ELSE {m \in {Move(i, j) : i \in 0..8, j \in 0..8} :
              ~Settled(b, m.major) /\ ~Occupied(b, m.major, m.minor)}

\* C21: generate_moves() returns, in ascending (major, minor) order and with
\* no duplicates, the empty cells of the forced sub-board when
\* next_sub_board is in 0..8, and the empty cells of every sub-board with no
\* sub_wins bit when it is 9.
C21_GeneratedMovesExact ==
    \A moves \in {generate_moves(board)} :
        /\ {moves[k] : k \in 1..Len(moves)} = OpenMoveSet(board)
        /\ \A k \in 1..(Len(moves) - 1) :
               9 * moves[k].major + moves[k].minor
                   < 9 * moves[k + 1].major + moves[k + 1].minor

\* C21 witness: a free-choice Board whose moves lie in two sub-boards or
\* more, a settled sub-board with an empty cell being left out.
C21_Witness ==
    /\ board.next_sub_board = 9
    /\ \E m, n \in OpenMoveSet(board) : m.major # n.major
    /\ \E i \in 0..8, j \in 0..8 : Settled(board, i) /\ ~Occupied(board, i, j)
    /\ \E i \in 0..8 : Cardinality({m \in OpenMoveSet(board) : m.major = i}) >= 2

\* C22: traverse from the root returns a node of the root's tree that is not
\* fully expanded, or is terminal, or has no child to select; every node
\* above it on the way down is fully expanded and not terminal.
C22_TraverseFrontier ==
    root # 0 =>
        \A t \in {traverse(nodes, root)} :
            /\ root \in PathToRoot(t)
            /\ \/ ~is_fully_expanded(nodes[t])
               \/ nodes[t].is_terminal
               \/ select_best_child_uct(nodes, t) = 0
            /\ \A n \in PathToRoot(t) \ {t} :
                   is_fully_expanded(nodes[n]) /\ ~nodes[n].is_terminal

\* C22 witness: traverse descends two levels, to a child of a child of the
\* root.
C22_Witness ==
    /\ root # 0
    /\ traverse(nodes, root) # root
    /\ nodes[traverse(nodes, root)].parent # root

\* The position of child c in the expanded list of node n.
IndexOf(n, c) == CHOOSE k \in 1..Len(nodes[n].expanded) : nodes[n].expanded[k] = c

\* C23: select_best_child_uct returns none exactly when the node has no
\* expanded child, and otherwise the child with the greatest score, the
\* earliest of them on a tie; the score is UCB1, wins/visits +
\* sqrt(2) * sqrt(ln(parent.visits)/child.visits), which depends on the
\* parent's visits: it grows when the parent's visits grow (from 1 or more)
\* while the child's wins and visits (1 or more) stay as they are.
C23_Ucb1Selection ==
    [][/\ \A n \in 1..Len(nodes) :
              \A sel \in {select_best_child_uct(nodes, n)} :
                  /\ sel = 0 <=> nodes[n].expanded = <<>>
                  /\ sel # 0 =>
                         /\ sel \in Children(n)
                         /\ \A d \in Children(n) :
                                /\ ~uct_gt(uct(nodes[d]), uct(nodes[sel]))
                                /\ IndexOf(n, d) < IndexOf(n, sel) =>
                                       uct_gt(uct(nodes[sel]), uct(nodes[d]))
       /\ \A c \in 1..Len(nodes) :
              (/\ nodes[c].parent # 0
               /\ nodes[c].visits >= 1
               /\ nodes'[c].visits = nodes[c].visits
               /\ nodes'[c].wins = nodes[c].wins
               /\ nodes[nodes[c].parent].visits >= 1
               /\ nodes'[nodes[c].parent].visits > nodes[nodes[c].parent].visits)
              => uct_gt(uct(nodes'[c]), uct(nodes[c]))]_vars

\* C24: sub_wins agrees with a rescan of the sub-boards: bit i of sub_wins.x
\* is set iff X's cells of sub-board i hold a line, bit i of sub_wins.o iff
\* O's do, and bit i of sub_wins.tie iff sub-board i is full and neither
\* player has a line in it; X on cells 0, 1, 2 of sub-board 0 has bit 0 of
\* sub_wins.x, and winner() is InProgress while that is X's only sub-board
\* and O has none.
C24_SubWinsInSync ==
    /\ \A i \in 0..8 :
           /\ Bit(board.sub_wins.x, i) <=> HasLine(board.board[i].x)
           /\ Bit(board.sub_wins.o, i) <=> HasLine(board.board[i].o)
           /\ Bit(board.sub_wins.tie, i) <=>
                  /\ \A j \in 0..8 : Occupied(board, i, j)
                  /\ ~HasLine(board.board[i].x)
                  /\ ~HasLine(board.board[i].o)
    /\ {0, 1, 2} \subseteq Cells(board.board[0].x) => Bit(board.sub_wins.x, 0)
    /\ (board.sub_wins = [x |-> 1, o |-> 0, tie |-> 0]) => winner(board) = "InProgress"

\* C24 witness: X has just taken cell 0 of sub-board 0 after cells 1 and 2,
\* O having moved in sub-boards 1 and 2: bit 0 of sub_wins.x alone is set.
C24_Witness ==
    /\ result = "some"
    /\ lastMove = Move(0, 0)
    /\ board.board[0] = [x |-> 7, o |-> 0]
    /\ prev.sub_wins = [x |-> 0, o |-> 0, tie |-> 0]
    /\ board.sub_wins = [x |-> 1, o |-> 0, tie |-> 0]
    /\ winner(board) = "InProgress"

\* C25: next_sub_board is in 0..9, and a next_sub_board k in 0..8 names a
\* sub-board that has no sub_wins bit and an empty cell, so generate_moves
\* has a move to return for it.
C25_ForcedSubBoardOpen ==
    /\ board.next_sub_board \in 0..9
    /\ board.next_sub_board \in 0..8 =>
           /\ ~Settled(board, board.next_sub_board)
           /\ \E j \in 0..8 : ~Occupied(board, board.next_sub_board, j)
           /\ generate_moves(board) # <<>>

\* C25 witness: a move has sent the opponent to a sub-board with a single
\* empty cell, other sub-boards being settled already.
C25_Witness ==
    /\ result = "some"
    /\ board.next_sub_board \in 0..8
    /\ Cardinality({j \in 0..8 : ~Occupied(board, board.next_sub_board, j)}) = 1
    /\ ~Settled(prev, lastMove.major)
    /\ \E i \in 0..8 : Settled(board, i)

\* C26: once winner() is X, O or Tie it is the same on every Board reached
\* by further moves, through advance_state or from generate_moves.
C26_WinnerStable ==
    [][winner(board) # "InProgress" => winner(board') = winner(board)]_vars

\* C27: for every move with both indices in 0..8, advance_state returns a
\* Board iff generate_moves() contains the move, and the Board it returns
\* is the one advance_state_unsafe gives.
C27_CheckedIffGenerated ==
    \A moves \in {generate_moves(board)} :
        \A i \in 0..8, j \in 0..8 :
            \A r \in {advance_state(board, Move(i, j))} :
                /\ r.some <=> \E k \in 1..Len(moves) : moves[k] = Move(i, j)
                /\ r.some => r.val = advance_state_unsafe(board, Move(i, j))

\* C27 witness: a Board with a forced sub-board on which some move onto an
\* empty cell of an unsettled sub-board is neither accepted nor generated,
\* being in another sub-board.
C27_Witness ==
    /\ result = "some"
    /\ board.next_sub_board \in 0..8
    /\ \E i \in 0..8, j \in 0..8 :
           /\ i # board.next_sub_board
           /\ ~Settled(board, i)
           /\ ~Occupied(board, i, j)
           /\ ~advance_state(board, Move(i, j)).some

\* C28: every node has 0 <= win score <= visits (the win score is kept in
\* halves, so wins <= ONE * visits).
C28_WinsAtMostVisits ==
    \A n \in 1..Len(nodes) :
        /\ 0 <= nodes[n].wins
        /\ nodes[n].wins <= ONE * nodes[n].visits

\* C29: a move best_move() returns is legal on the Board the engine was
\* initialized with: the checked advance_state returns a Board for it.
C29_BestMoveLegal ==
    best.some =>
        /\ nodes[root].board = board
        /\ advance_state(nodes[root].board, best.val).some

\* C29 witness: best_move answered on a tree with a node two levels below
\* the root, the root's Board having a forced sub-board.
C29_Witness ==
    /\ best.some
    /\ nodes[root].board.next_sub_board \in 0..8
    /\ \E n \in Children(root) : nodes[n].expanded # <<>>

\* C30: run_search never calls expand on a node whose unexpanded moves are
\* empty, whatever Board the engine was initialized with: the expect of
\* expand never fails.
C30_ExpandNeverFails == pc # "expand_panic"

\* C30 witness: run_search has returned after two iterations on a root whose
\* Board is terminal and has no legal move.
C30_Witness ==
    /\ pc = "idle"
    /\ root # 0
    /\ rollouts >= 2
    /\ nodes[root].is_terminal
    /\ generate_moves(nodes[root].board) = <<>>

====
